---- MODULE Spec2Model ----
(***************************************************************************)
(* Booking management of the rentals platform                              *)
(* (src/src/components/booking-management.tsx).                             *)
(*                                                                         *)
(* The state is the React state of the BookingManagement component: the    *)
(* bookings array, the four "dialog for" snapshots, the date range kept by *)
(* the ModifyDialog and the open flag of the RequestForm.  One step of the *)
(* model is one user event together with the handler it runs to            *)
(* completion.  The dialogs are the modal Dialog of components/ui/dialog:  *)
(* while one is open the cards behind it cannot be clicked.                *)
(*                                                                         *)
(* Calendar dates are day numbers (months laid out on a 31-day grid);      *)
(* timestamps taken with `new Date()` are readings of a clock that never   *)
(* runs backwards, `now` being the latest reading.  `zone` is the time    *)
(* zone of the browser, in which every calendar date is a local midnight.  *)
(* `call` records the handler run by the latest step with its arguments,   *)
(* `toasts` what that handler passed to toast(), and `updates` counts the  *)
(* updateBooking calls.                                                    *)
(*                                                                         *)
(* The second part is the social feed                                      *)
(* (src/src/components/social-feed-system.tsx): the posts array with the   *)
(* polls of the posts, the loadingMore flag, and the loads of loadMore     *)
(* that wait for their timer.  `subscribed` is the value of loadingMore    *)
(* in the loadMore closure that the intersection observer calls: it is     *)
(* the value of the render that created the observer, until the effect     *)
(* runs again.  The two components share no state: a step of one leaves    *)
(* the variables of the other unchanged.                                   *)
(***************************************************************************)
EXTENDS Integers, Sequences, FiniteSets, TLC

VARIABLES bookings, modifyFor, cancelFor, disputeFor, reviewFor,
          modifyRange, requestOpen, zone, now, toasts, call, updates,
          posts, loadingMore, subscribed, inflight, feedNow, feedCall

vars == <<bookings, modifyFor, cancelFor, disputeFor, reviewFor,
          modifyRange, requestOpen, zone, now, toasts, call, updates,
          posts, loadingMore, subscribed, inflight, feedNow, feedCall>>

\* the state of the social feed
feedVars == <<posts, loadingMore, subscribed, inflight, feedNow, feedCall>>

----------------------------------------------------------------------------
(* Bounds of the model *)

\* largest clock reading
MaxTime == 1
\* number of booking requests that may be submitted
MaxRequests == 1
\* number of updateBooking calls that are followed
MaxUpdates == 4
\* largest reading of Date.now() in the social feed
MaxFeedTime == 1
\* number of loads of the social feed that get past the guard of loadMore
MaxLoads == 2
\* number of intersecting entries that one observer callback can deliver
MaxEntries == 2

----------------------------------------------------------------------------
(* Types *)

BookingStatus ==
    {"pending", "accepted", "rejected", "awaiting_payment", "confirmed",
     "in_progress", "completed", "cancelled", "disputed"}

CancellationPolicy == {"flexible", "moderate", "strict"}

Actions ==
    {"accept", "reject", "pay", "confirm", "cancel", "complete", "modify",
     "dispute", "review"}

\* an absent optional Date (`from?: Date`, `to?: Date`)
Undefined == -1

\* new Date(year, month + m, d) as a day number
Day(m, d) == (m + 2) * 31 + d

\* the two days a user picks in a range calendar
PickFrom == Day(0, 7)
PickTo == Day(0, 9)
\* a later end, picked in the RequestForm
PickLater == Day(0, 10)

\* what a range calendar (Calendar mode="range") can hold: nothing, a start
\* only, or a whole range, which it hands over with the earlier day first
DateRanges ==
    {[from |-> Undefined, to |-> Undefined],
     [from |-> PickFrom, to |-> Undefined],
     [from |-> PickFrom, to |-> PickTo]}

\* what the range calendar of the RequestForm can hold: its whole range is a
\* day longer, and overlaps the dates of the initial booking bkg_1002
RequestRanges ==
    {[from |-> Undefined, to |-> Undefined],
     [from |-> PickFrom, to |-> Undefined],
     [from |-> PickFrom, to |-> PickLater]}

\* the time zone of the browser: one that keeps the same offset all year, and
\* one with summer time
Zones == {"UTC", "America/New_York"}

\* the last day of summer time: in a zone that has it, the clocks go back one
\* hour in the night that follows
LastSummerDay == Day(0, 7)

\* `range?.from && range?.to`
HasBoth(range) == range.from # Undefined /\ range.to # Undefined

\* values of Math.floor(Math.random() * 100000) that the model draws: one
\* that repeats the number of an initial booking and one that does not
RandomDraws == {1001, 42}

\* the policies chosen in the RequestForm: its default and another one
FormPolicies == {"moderate", "strict"}

Listings == {"", "Loft"}
\* guest count and message of the RequestForm (submitRequest reads neither)
Guests == {1, 5}
Messages == {""}
Reasons == {"", "change of plans"}
Times == 0 .. MaxTime

----------------------------------------------------------------------------
(* Pure helpers *)

\* a.getTime() for a calendar day (its local midnight), counted in hours
\* rather than milliseconds: once the clocks have gone back, local midnight
\* is one hour later
getTime(a) ==
    a * 24 + (IF zone = "America/New_York" /\ a > LastSummerDay THEN 1 ELSE 0)

\* Math.ceil(x / y) for x >= 0, y > 0
CeilDiv(x, y) == (x + y - 1) \div y

daysBetween(a, b) ==
    LET d  == getTime(b) - getTime(a)
        ms == IF d >= 0 THEN d ELSE 0 - d
    IN  CeilDiv(ms, 24)

\* { ...b, ...patch }
Merge(b, patch) ==
    [f \in DOMAIN b |-> IF f \in DOMAIN patch THEN patch[f] ELSE b[f]]

\* bookings.find((x) => x.id === id): index of the first match, 0 for none
find(bs, id) ==
    IF \E i \in DOMAIN bs : bs[i].id = id
    THEN CHOOSE i \in DOMAIN bs :
            /\ bs[i].id = id
            /\ \A j \in DOMAIN bs : bs[j].id = id => i <= j
    ELSE 0

\* how many of the first i bookings have this id
Rank(bs, id, i) == Cardinality({j \in 1 .. i : bs[j].id = id})

\* the successive readings of `new Date()` in one handler: n readings, none
\* earlier than the one before
ClockReads(n) ==
    {r \in [1 .. n -> Times] :
        /\ \A k \in 1 .. n : r[k] >= now
        /\ \A k \in 1 .. n - 1 : r[k] <= r[k + 1]}

LastRead(r) == IF DOMAIN r = {} THEN now ELSE r[Cardinality(DOMAIN r)]

\* updateBooking with a fault: lastUpdatedAt is left as it was
updateBookingStale(bs, id, patch, reads) ==
    [i \in DOMAIN bs |->
        IF bs[i].id = id THEN Merge(bs[i], patch) ELSE bs[i]]

\* updateBooking with a fault: the patched booking falls back to the default
\* cancellation policy
updateBookingDefaultPolicy(bs, id, patch, reads) ==
    [i \in DOMAIN bs |->
        IF bs[i].id = id
        THEN Merge(Merge(bs[i], patch),
                   [lastUpdatedAt |-> reads[Rank(bs, id, i)],
                    cancellationPolicy |-> "moderate"])
        ELSE bs[i]]

\* prev.map((b) => (b.id === id ? { ...b, ...patch, lastUpdatedAt: new Date() } : b))
updateBooking(bs, id, patch, reads) ==
    [i \in DOMAIN bs |->
        IF bs[i].id = id
        THEN Merge(Merge(bs[i], patch), [lastUpdatedAt |-> reads[Rank(bs, id, i)]])
        ELSE bs[i]]

Matches(bs, id) == Cardinality({i \in DOMAIN bs : bs[i].id = id})

\* bookedRanges with a fault: pending bookings are taken for booked too
bookedRangesWithPending(bs) ==
    LET booked(b) ==
            b.status \in {"confirmed", "in_progress", "completed", "accepted",
                          "awaiting_payment", "pending"}
        kept == SelectSeq(bs, booked)
    IN  [k \in DOMAIN kept |-> [from |-> kept[k].startDate, to |-> kept[k].endDate]]

\* bookings.filter((b) => [...].includes(b.status))
\*         .map((b) => ({ from: b.startDate, to: b.endDate }))
bookedRanges(bs) ==
    LET booked(b) ==
            b.status \in {"confirmed", "in_progress", "completed", "accepted",
                          "awaiting_payment"}
        kept == SelectSeq(bs, booked)
    IN  [k \in DOMAIN kept |-> [from |-> kept[k].startDate, to |-> kept[k].endDate]]

\* bookings.filter((b) => [...].includes(b.status))
active(bs) ==
    LET shown(b) ==
            b.status \in {"pending", "accepted", "awaiting_payment", "confirmed",
                          "in_progress"}
    IN  SelectSeq(bs, shown)

\* bookings.filter((b) => b.startDate > new Date() && [...].includes(b.status)),
\* the clock being read on the day `today`
upcoming(bs, today) ==
    LET shown(b) == b.startDate > today /\ b.status \in {"confirmed", "accepted"}
    IN  SelectSeq(bs, shown)

\* history with a fault: cancelled bookings are left out
historyWithoutCancelled(bs) ==
    LET shown(b) == b.status \in {"completed", "rejected", "disputed"}
    IN  SelectSeq(bs, shown)

\* bookings.filter((b) => [...].includes(b.status))
history(bs) ==
    LET shown(b) == b.status \in {"completed", "cancelled", "rejected", "disputed"}
    IN  SelectSeq(bs, shown)

\* the days on which the views may be rendered: in the current month, before
\* and after the dates of the bookings
Todays == {Day(0, 1), Day(0, 6), Day(0, 31)}

\* two date ranges have a day in common
Overlap(r1, r2) == r1.from <= r2.to /\ r2.from <= r1.to

Toast(kind, message, description) ==
    [kind |-> kind, message |-> message, description |-> description]

NoRange == [from |-> Undefined, to |-> Undefined]

Call(op, idx, id, action, range, text, policy) ==
    [op |-> op, idx |-> idx, id |-> id, action |-> action, range |-> range,
     text |-> text, policy |-> policy]

----------------------------------------------------------------------------
(* Initial state *)

InitialBookings(r) ==
    << [id |-> "bkg_1001", listingTitle |-> "Modern Loft with Skyline View",
        guestName |-> "Ava Chen", hostName |-> "Marcus Lee",
        startDate |-> Day(0, 20), endDate |-> Day(0, 23), total |-> 520,
        status |-> "awaiting_payment", createdAt |-> r[1], lastUpdatedAt |-> r[2],
        cancellationPolicy |-> "moderate",
        canModify |-> TRUE, canCancel |-> TRUE, canPay |-> TRUE, canReview |-> FALSE],
       [id |-> "bkg_1002", listingTitle |-> "Cozy Studio Downtown",
        guestName |-> "You", hostName |-> "Priya Patel",
        startDate |-> Day(0, 5), endDate |-> Day(0, 8), total |-> 360,
        status |-> "confirmed", createdAt |-> r[3], lastUpdatedAt |-> r[4],
        cancellationPolicy |-> "flexible",
        canModify |-> TRUE, canCancel |-> TRUE, canPay |-> FALSE, canReview |-> FALSE],
       [id |-> "bkg_1003", listingTitle |-> "Beachfront Bungalow",
        guestName |-> "Liam Johnson", hostName |-> "You",
        startDate |-> Day(1, 3), endDate |-> Day(1, 10), total |-> 1450,
        status |-> "pending", createdAt |-> r[5], lastUpdatedAt |-> r[6],
        cancellationPolicy |-> "strict",
        canModify |-> FALSE, canCancel |-> FALSE, canPay |-> FALSE, canReview |-> FALSE],
       [id |-> "bkg_0990", listingTitle |-> "Mountain Cabin Retreat",
        guestName |-> "You", hostName |-> "Sofia Gomez",
        startDate |-> Day(-2, 12), endDate |-> Day(-2, 16), total |-> 780,
        status |-> "completed", createdAt |-> r[7], lastUpdatedAt |-> r[8],
        cancellationPolicy |-> "moderate",
        canModify |-> FALSE, canCancel |-> FALSE, canPay |-> FALSE, canReview |-> TRUE] >>

\* the number of bookings the component starts with
InitialCount == Len(InitialBookings([k \in 1 .. 8 |-> 0]))

\* `${prefix}-${Date.now()}-${i}`, and the literal ids "p1", "p2", "p3"
PostId(prefix, at, i) == [prefix |-> prefix, at |-> at, i |-> i]

NoPostId == PostId("", 0, 0)

\* a post without a poll (`poll?: Poll` absent)
NoPoll == [votedOptionId |-> "", options |-> <<>>]

PollOption(id, votes) == [id |-> id, votes |-> votes]

\* the posts the feed starts with; of a post the model keeps the id and
\* the poll
demoPosts ==
    << [id |-> PostId("p1", 0, 0), poll |-> NoPoll],
       [id |-> PostId("p2", 0, 0),
        poll |-> [votedOptionId |-> "",
                  options |-> <<PollOption("o1", 21), PollOption("o2", 9),
                                PollOption("o3", 4)>>]],
       [id |-> PostId("p3", 0, 0), poll |-> NoPoll] >>

\* the handler of the feed run by the latest step, with its arguments
FeedCall(op, idx, postId, optionId) ==
    [op |-> op, idx |-> idx, postId |-> postId, optionId |-> optionId]

\* useState of SocialFeedSystem at mount
FeedMount ==
    /\ posts = demoPosts
    /\ loadingMore = FALSE
    /\ subscribed = FALSE
    /\ inflight = 0
    /\ feedNow = 0
    /\ feedCall = FeedCall("mount", 0, NoPostId, "")

Init ==
    /\ FeedMount
    /\ \E r \in [1 .. 8 -> Times] :
          /\ \A k \in 1 .. 7 : r[k] <= r[k + 1]
          /\ bookings = InitialBookings(r)
          /\ now = r[8]
    /\ modifyFor = <<>>
    /\ cancelFor = <<>>
    /\ disputeFor = <<>>
    /\ reviewFor = <<>>
    /\ modifyRange = NoRange
    /\ requestOpen = FALSE
    /\ zone \in Zones
    /\ toasts = <<>>
    /\ call = Call("mount", 0, "", "", NoRange, "", "")
    /\ updates = 0

----------------------------------------------------------------------------
(* What is on screen *)

\* a Dialog is open: the page behind a modal dialog takes no clicks
DialogOpen ==
    \/ modifyFor # <<>>
    \/ cancelFor # <<>>
    \/ disputeFor # <<>>
    \/ reviewFor # <<>>
    \/ requestOpen

\* the buttons a BookingCard renders for a status
ButtonShown(status, action) ==
    \/ status = "pending" /\ action \in {"accept", "reject"}
    \/ status = "accepted" /\ action = "confirm"
    \/ status = "awaiting_payment" /\ action = "pay"
    \/ status = "confirmed" /\ action \in {"modify", "cancel"}
    \/ status = "in_progress" /\ action \in {"complete", "dispute"}
    \/ status = "completed" /\ action = "review"

----------------------------------------------------------------------------
(* Handlers of BookingManagement *)

\* setStatus with a fault: a booking that is paid for is taken to have begun
setStatusBegins(id, status, toast) ==
    \E reads \in ClockReads(Matches(bookings, id)) :
        /\ updates < MaxUpdates
        /\ updates' = updates + 1
        /\ bookings' = updateBooking(bookings, id,
                            [status |-> IF status = "confirmed" THEN "in_progress"
                                        ELSE status], reads)
        /\ now' = LastRead(reads)
        /\ toasts' = <<toast>>
        /\ UNCHANGED <<modifyFor, cancelFor, disputeFor, reviewFor>>

\* setStatus with a fault: the toast is shown but the booking is not updated
setStatusToastOnly(id, status, toast) ==
    /\ toasts' = <<toast>>
    /\ UNCHANGED <<bookings, now, updates, modifyFor, cancelFor, disputeFor, reviewFor>>

\* updateBooking(id, { status }) followed by a toast
setStatus(id, status, toast) ==
    \E reads \in ClockReads(Matches(bookings, id)) :
        /\ updates < MaxUpdates
        /\ updates' = updates + 1
        /\ bookings' = updateBooking(bookings, id, [status |-> status], reads)
        /\ now' = LastRead(reads)
        /\ toasts' = <<toast>>
        /\ UNCHANGED <<modifyFor, cancelFor, disputeFor, reviewFor>>

handleAction(id, action) ==
    LET k == find(bookings, id) IN
    IF k = 0
    THEN /\ toasts' = <<>>
         /\ UNCHANGED <<bookings, now, updates, modifyFor, cancelFor, disputeFor, reviewFor>>
    ELSE
      CASE action = "accept" ->
             setStatus(id, "accepted", Toast("success", "Booking accepted", ""))
        [] action = "reject" ->
             setStatus(id, "rejected", Toast("plain", "Booking rejected", ""))
        [] action = "confirm" ->
             setStatus(id, "awaiting_payment",
                       Toast("plain", "Awaiting payment",
                             "We sent a payment link to the guest."))
        [] action = "pay" ->
             setStatus(id, "confirmed",
                       Toast("success", "Payment received. Booking confirmed.", ""))
        [] action = "cancel" ->
             /\ cancelFor' = <<bookings[k]>>
             /\ toasts' = <<>>
             /\ UNCHANGED <<bookings, now, updates, modifyFor, disputeFor, reviewFor>>
        [] action = "complete" ->
             setStatus(id, "completed",
                       Toast("success", "Booking marked as completed", ""))
        [] action = "modify" ->
             /\ modifyFor' = <<bookings[k]>>
             /\ toasts' = <<>>
             /\ UNCHANGED <<bookings, now, updates, cancelFor, disputeFor, reviewFor>>
        [] action = "dispute" ->
             /\ disputeFor' = <<bookings[k]>>
             /\ toasts' = <<>>
             /\ UNCHANGED <<bookings, now, updates, modifyFor, cancelFor, reviewFor>>
        [] action = "review" ->
             /\ reviewFor' = <<bookings[k]>>
             /\ toasts' = <<>>
             /\ UNCHANGED <<bookings, now, updates, modifyFor, cancelFor, disputeFor>>

\* a click on a button of the card of the i-th booking
Click(i, action) ==
    /\ ~DialogOpen
    /\ ButtonShown(bookings[i].status, action)
    /\ handleAction(bookings[i].id, action)
    /\ call' = Call("handleAction", i, bookings[i].id, action, NoRange, "", "")
    /\ UNCHANGED <<modifyRange, requestOpen, zone, feedVars>>

\* `bkg_${Math.floor(Math.random() * 100000)}`
NewId(n) == "bkg_" \o ToString(n)

\* NewBooking with a fault: the policy of the form is dropped for the default
NewBookingDefaultPolicy(payload, n, reads) ==
    [id |-> NewId(n), listingTitle |-> payload.listing,
     guestName |-> "You", hostName |-> "Host",
     startDate |-> payload.range.from, endDate |-> payload.range.to,
     total |-> 100 * daysBetween(payload.range.from, payload.range.to),
     status |-> "pending", createdAt |-> reads[1], lastUpdatedAt |-> reads[2],
     cancellationPolicy |-> "moderate",
     canModify |-> TRUE, canCancel |-> TRUE, canPay |-> FALSE, canReview |-> FALSE]

\* NewBooking with a fault: the first status is a word outside BookingStatus
NewBookingRequested(payload, n, reads) ==
    [id |-> NewId(n), listingTitle |-> payload.listing,
     guestName |-> "You", hostName |-> "Host",
     startDate |-> payload.range.from, endDate |-> payload.range.to,
     total |-> 100 * daysBetween(payload.range.from, payload.range.to),
     status |-> "requested", createdAt |-> reads[1], lastUpdatedAt |-> reads[2],
     cancellationPolicy |-> payload.policy,
     canModify |-> TRUE, canCancel |-> TRUE, canPay |-> FALSE, canReview |-> FALSE]

\* the booking built by submitRequest: createdAt is read from the clock
\* before lastUpdatedAt
NewBooking(payload, n, reads) ==
    [id |-> NewId(n), listingTitle |-> payload.listing,
     guestName |-> "You", hostName |-> "Host",
     startDate |-> payload.range.from, endDate |-> payload.range.to,
     total |-> 100 * daysBetween(payload.range.from, payload.range.to),
     status |-> "pending", createdAt |-> reads[1], lastUpdatedAt |-> reads[2],
     cancellationPolicy |-> payload.policy,
     canModify |-> TRUE, canCancel |-> TRUE, canPay |-> FALSE, canReview |-> FALSE]

\* submitRequest with a fault: the new booking replaces the collection
submitRequestReplaces(payload) ==
    \E n \in RandomDraws, reads \in ClockReads(2) :
        /\ bookings' = <<NewBooking(payload, n, reads)>>
        /\ now' = LastRead(reads)
        /\ toasts' = <<Toast("success", "Request submitted", "")>>
        /\ UNCHANGED updates

\* submitRequest with a fault: a request that overlaps a booked range is
\* turned down
submitRequestRejectsBooked(payload) ==
    IF \E k \in DOMAIN bookedRanges(bookings) :
            Overlap(bookedRanges(bookings)[k], payload.range)
    THEN /\ toasts' = <<Toast("error", "Those dates are booked", "")>>
         /\ UNCHANGED <<bookings, now, updates>>
    ELSE \E n \in RandomDraws, reads \in ClockReads(2) :
            /\ bookings' = <<NewBooking(payload, n, reads)>> \o bookings
            /\ now' = LastRead(reads)
            /\ toasts' = <<Toast("success", "Request submitted", "")>>
            /\ UNCHANGED updates

submitRequest(payload) ==
    \E n \in RandomDraws, reads \in ClockReads(2) :
        /\ bookings' = <<NewBooking(payload, n, reads)>> \o bookings
        /\ now' = LastRead(reads)
        /\ toasts' = <<Toast("success", "Request submitted", "")>>
        /\ UNCHANGED updates

\* the "New booking request" button (DialogTrigger of RequestForm)
OpenRequest ==
    /\ ~DialogOpen
    /\ requestOpen' = TRUE
    /\ toasts' = <<>>
    /\ call' = Call("openRequest", 0, "", "", NoRange, "", "")
    /\ UNCHANGED <<bookings, now, updates, modifyFor, cancelFor, disputeFor, reviewFor,
                   modifyRange, zone, feedVars>>

\* RequestForm.submit with the form holding listing, range, guests, message, policy
Submit(listing, range, guests, message, policy) ==
    /\ requestOpen
    /\ Len(bookings) < InitialCount + MaxRequests
    /\ call' = Call("submit", 0, "", "", range, listing, policy)
    /\ IF listing = "" \/ ~HasBoth(range)
       THEN /\ toasts' = <<Toast("error", "Please complete listing and dates", "")>>
            /\ UNCHANGED <<bookings, now, updates, requestOpen>>
       ELSE /\ submitRequest([listing |-> listing, range |-> range, guests |-> guests,
                             message |-> message, policy |-> policy])
            /\ requestOpen' = FALSE
    /\ UNCHANGED <<modifyFor, cancelFor, disputeFor, reviewFor, modifyRange, zone, feedVars>>

\* Calendar onSelect={setRange} inside the ModifyDialog
ModifySelect(range) ==
    /\ modifyFor # <<>>
    /\ modifyRange' = range
    /\ toasts' = <<>>
    /\ call' = Call("setRange", 0, "", "", range, "", "")
    /\ UNCHANGED <<bookings, now, updates, modifyFor, cancelFor, disputeFor, reviewFor,
                   requestOpen, zone, feedVars>>

\* onModifyConfirm with a fault: the patch leaves the status out
onModifyConfirmKeepsStatus(payload) ==
    IF modifyFor = <<>>
    THEN /\ toasts' = <<>>
         /\ UNCHANGED <<bookings, now, updates, modifyFor>>
    ELSE /\ IF HasBoth(payload.range)
            THEN \E reads \in ClockReads(Matches(bookings, modifyFor[1].id)) :
                    /\ updates < MaxUpdates
                    /\ updates' = updates + 1
                    /\ bookings' = updateBooking(bookings, modifyFor[1].id,
                                        [startDate |-> payload.range.from,
                                         endDate |-> payload.range.to], reads)
                    /\ now' = LastRead(reads)
                    /\ toasts' = <<Toast("plain", "Modification sent",
                                         "Awaiting approval from the other party.")>>
            ELSE /\ toasts' = <<Toast("error", "Please choose a new date range", "")>>
                 /\ UNCHANGED <<bookings, now, updates>>
         /\ modifyFor' = <<>>

\* onModifyConfirm with a fault: only the start of the range is tested
onModifyConfirmStartOnly(payload) ==
    IF modifyFor = <<>>
    THEN /\ toasts' = <<>>
         /\ UNCHANGED <<bookings, now, updates, modifyFor>>
    ELSE /\ IF payload.range.from # Undefined
            THEN \E reads \in ClockReads(Matches(bookings, modifyFor[1].id)) :
                    /\ updates < MaxUpdates
                    /\ updates' = updates + 1
                    /\ bookings' = updateBooking(bookings, modifyFor[1].id,
                                        [startDate |-> payload.range.from,
                                         endDate |-> payload.range.to,
                                         status |-> "pending"], reads)
                    /\ now' = LastRead(reads)
                    /\ toasts' = <<Toast("plain", "Modification sent",
                                         "Awaiting approval from the other party.")>>
            ELSE /\ toasts' = <<Toast("error", "Please choose a new date range", "")>>
                 /\ UNCHANGED <<bookings, now, updates>>
         /\ modifyFor' = <<>>

\* onModifyConfirm with a fault: the two ends of the range are taken for
\* each other
onModifyConfirmSwapped(payload) ==
    IF modifyFor = <<>>
    THEN /\ toasts' = <<>>
         /\ UNCHANGED <<bookings, now, updates, modifyFor>>
    ELSE /\ IF HasBoth(payload.range)
            THEN \E reads \in ClockReads(Matches(bookings, modifyFor[1].id)) :
                    /\ updates < MaxUpdates
                    /\ updates' = updates + 1
                    /\ bookings' = updateBooking(bookings, modifyFor[1].id,
                                        [startDate |-> payload.range.to,
                                         endDate |-> payload.range.from,
                                         status |-> "pending"], reads)
                    /\ now' = LastRead(reads)
                    /\ toasts' = <<Toast("plain", "Modification sent",
                                         "Awaiting approval from the other party.")>>
            ELSE /\ toasts' = <<Toast("error", "Please choose a new date range", "")>>
                 /\ UNCHANGED <<bookings, now, updates>>
         /\ modifyFor' = <<>>

onModifyConfirm(payload) ==
    IF modifyFor = <<>>
    THEN /\ toasts' = <<>>
         /\ UNCHANGED <<bookings, now, updates, modifyFor>>
    ELSE /\ IF HasBoth(payload.range)
            THEN \E reads \in ClockReads(Matches(bookings, modifyFor[1].id)) :
                    /\ updates < MaxUpdates
                    /\ updates' = updates + 1
                    /\ bookings' = updateBooking(bookings, modifyFor[1].id,
                                        [startDate |-> payload.range.from,
                                         endDate |-> payload.range.to,
                                         status |-> "pending"], reads)
                    /\ now' = LastRead(reads)
                    /\ toasts' = <<Toast("plain", "Modification sent",
                                         "Awaiting approval from the other party.")>>
            ELSE /\ toasts' = <<Toast("error", "Please choose a new date range", "")>>
                 /\ UNCHANGED <<bookings, now, updates>>
         /\ modifyFor' = <<>>

\* onCancelConfirm with a fault: an empty reason cancels nothing
onCancelConfirmNeedsReason(reason) ==
    IF cancelFor = <<>> \/ reason = ""
    THEN /\ toasts' = <<>>
         /\ cancelFor' = <<>>
         /\ UNCHANGED <<bookings, now, updates>>
    ELSE \E reads \in ClockReads(Matches(bookings, cancelFor[1].id)) :
            /\ updates < MaxUpdates
            /\ updates' = updates + 1
            /\ bookings' = updateBooking(bookings, cancelFor[1].id,
                                [status |-> "cancelled"], reads)
            /\ now' = LastRead(reads)
            /\ toasts' = <<Toast("plain", "Booking cancelled", reason)>>
            /\ cancelFor' = <<>>

onCancelConfirm(reason) ==
    IF cancelFor = <<>>
    THEN /\ toasts' = <<>>
         /\ UNCHANGED <<bookings, now, updates, cancelFor>>
    ELSE \E reads \in ClockReads(Matches(bookings, cancelFor[1].id)) :
            /\ updates < MaxUpdates
            /\ updates' = updates + 1
            /\ bookings' = updateBooking(bookings, cancelFor[1].id,
                                [status |-> "cancelled"], reads)
            /\ now' = LastRead(reads)
            /\ toasts' = <<Toast("plain", "Booking cancelled",
                                 IF reason # "" THEN reason
                                 ELSE "You can still leave a review if eligible.")>>
            /\ cancelFor' = <<>>

onDisputeSubmit ==
    IF disputeFor = <<>>
    THEN /\ toasts' = <<>>
         /\ UNCHANGED <<bookings, now, updates, disputeFor>>
    ELSE \E reads \in ClockReads(Matches(bookings, disputeFor[1].id)) :
            /\ updates < MaxUpdates
            /\ updates' = updates + 1
            /\ bookings' = updateBooking(bookings, disputeFor[1].id,
                                [status |-> "disputed"], reads)
            /\ now' = LastRead(reads)
            /\ toasts' = <<Toast("plain", "Dispute submitted",
                                 "Support will follow up within 24-48 hours.")>>
            /\ disputeFor' = <<>>

\* onReviewSubmit with a fault: it does what onDisputeSubmit does
onReviewSubmitDisputes ==
    IF reviewFor = <<>>
    THEN /\ toasts' = <<>>
         /\ UNCHANGED <<bookings, now, updates, reviewFor>>
    ELSE \E reads \in ClockReads(Matches(bookings, reviewFor[1].id)) :
            /\ updates < MaxUpdates
            /\ updates' = updates + 1
            /\ bookings' = updateBooking(bookings, reviewFor[1].id,
                                [status |-> "disputed"], reads)
            /\ now' = LastRead(reads)
            /\ toasts' = <<Toast("success", "Thanks for your feedback!", "")>>
            /\ reviewFor' = <<>>

onReviewSubmit ==
    IF reviewFor = <<>>
    THEN /\ toasts' = <<>>
         /\ UNCHANGED <<bookings, now, updates, reviewFor>>
    ELSE /\ toasts' = <<Toast("success", "Thanks for your feedback!", "")>>
         /\ reviewFor' = <<>>
         /\ UNCHANGED <<bookings, now, updates>>

\* the primary button of the dialog that is open: it calls the dialog's
\* handler and then onOpenChange(false)
DialogSubmit(reason) ==
    /\ ~requestOpen
    /\ IF modifyFor # <<>>
       THEN /\ onModifyConfirm([range |-> modifyRange, note |-> ""])
            /\ call' = Call("onModifyConfirm", 0, modifyFor[1].id, "modify", modifyRange, "", "")
            /\ UNCHANGED <<cancelFor, disputeFor, reviewFor>>
       ELSE IF cancelFor # <<>>
       THEN /\ onCancelConfirm(reason)
            /\ call' = Call("onCancelConfirm", 0, cancelFor[1].id, "cancel", NoRange, reason, "")
            /\ UNCHANGED <<modifyFor, disputeFor, reviewFor>>
       ELSE IF disputeFor # <<>>
       THEN /\ onDisputeSubmit
            /\ call' = Call("onDisputeSubmit", 0, disputeFor[1].id, "dispute", NoRange, "", "")
            /\ UNCHANGED <<modifyFor, cancelFor, reviewFor>>
       ELSE /\ reviewFor # <<>>
            /\ onReviewSubmit
            /\ call' = Call("onReviewSubmit", 0, reviewFor[1].id, "review", NoRange, "", "")
            /\ UNCHANGED <<modifyFor, cancelFor, disputeFor>>
    /\ UNCHANGED <<modifyRange, requestOpen, zone, feedVars>>

\* onOpenChange(false): the secondary button, Escape or the close cross
DialogDismiss ==
    /\ DialogOpen
    /\ modifyFor' = <<>>
    /\ cancelFor' = <<>>
    /\ disputeFor' = <<>>
    /\ reviewFor' = <<>>
    /\ requestOpen' = FALSE
    /\ toasts' = <<>>
    /\ call' = Call("onOpenChange", 0, "", "", NoRange, "", "")
    /\ UNCHANGED <<bookings, now, updates, modifyRange, zone, feedVars>>

Next ==
    \/ \E i \in DOMAIN bookings, action \in Actions : Click(i, action)
    \/ OpenRequest
    \/ \E listing \in Listings, range \in RequestRanges, guests \in Guests,
          message \in Messages, policy \in FormPolicies :
            Submit(listing, range, guests, message, policy)
    \/ \E range \in DateRanges : ModifySelect(range)
    \/ \E reason \in Reasons : DialogSubmit(reason)
    \/ DialogDismiss

Spec == Init /\ [][Next]_vars

----------------------------------------------------------------------------
(* The social feed *)

\* the state of the booking management
bookingVars ==
    <<bookings, modifyFor, cancelFor, disputeFor, reviewFor, modifyRange,
      requestOpen, zone, now, call, updates>>

\* the number of loads that have appended their posts
Loaded ==
    LET more(p) == p.id.prefix = "m"
    IN  Len(SelectSeq(posts, more)) \div 3

\* the callback of the IntersectionObserver: entries.forEach calls loadMore()
\* for each of the n intersecting entries.  Every call reads the loadingMore
\* of its closure: `if (loadingMore) return`; a call that gets past it runs
\* setLoadingMore(true) and waits for its timer
Intersect(n) ==
    /\ IF subscribed
       THEN UNCHANGED <<loadingMore, inflight>>
       ELSE /\ Loaded + inflight + n <= MaxLoads
            /\ loadingMore' = TRUE
            /\ inflight' = inflight + n
    /\ feedCall' = FeedCall("loadMore", n, NoPostId, "")
    /\ toasts' = <<>>
    /\ UNCHANGED <<posts, subscribed, feedNow, bookingVars>>

\* the render after loadingMore changed makes a new loadMore (useCallback
\* with [loadingMore]) and the effect (with [loadMore]) disconnects the
\* observer and creates one that calls the new closure
Resubscribe ==
    /\ subscribed # loadingMore
    /\ subscribed' = loadingMore
    /\ feedCall' = FeedCall("effect", 0, NoPostId, "")
    /\ toasts' = <<>>
    /\ UNCHANGED <<posts, loadingMore, inflight, feedNow, bookingVars>>

\* Array.from({ length: 3 }) with ids `m-${Date.now()}-${i}`; no poll
MorePosts(t) == [i \in 1 .. 3 |-> [id |-> PostId("m", t, i - 1), poll |-> NoPoll]]

\* the timer of a waiting load ends and the rest of loadMore runs:
\* setPosts((prev) => [...prev, ...more]); setLoadingMore(false)
TimerFires ==
    /\ inflight > 0
    /\ \E t \in feedNow .. MaxFeedTime :
          /\ t <= feedNow + 1
          /\ feedNow' = t
          /\ posts' = posts \o MorePosts(t)
    /\ loadingMore' = FALSE
    /\ inflight' = inflight - 1
    /\ feedCall' = FeedCall("loadMoreDone", 0, NoPostId, "")
    /\ toasts' = <<>>
    /\ UNCHANGED <<subscribed, bookingVars>>

\* the poll options a composer may send: pollOptions.filter(Boolean)
PollOptionLists == {<<>>, <<"yes">>, <<"yes", "no">>}

\* the post built by handleCreate at the clock reading t
NewPost(pollOptions, t) ==
    [id |-> PostId("new", t, 0),
     poll |-> IF Len(pollOptions) > 0
              THEN [votedOptionId |-> "",
                    options |-> [i \in DOMAIN pollOptions |->
                                    PollOption("po-" \o ToString(i - 1), 0)]]
              ELSE NoPoll]

\* handleCreate: setPosts((prev) => [newPost, ...prev]) and a toast.  The
\* Post button is clicked at a later millisecond than any earlier event
handleCreate(pollOptions) ==
    /\ feedNow < MaxFeedTime
    /\ feedNow' = feedNow + 1
    /\ posts' = <<NewPost(pollOptions, feedNow + 1)>> \o posts
    /\ toasts' = <<Toast("success", "Post created", "")>>
    /\ feedCall' = FeedCall("handleCreate", 0, PostId("new", feedNow + 1, 0), "")
    /\ UNCHANGED <<loadingMore, subscribed, inflight, bookingVars>>

\* votePoll with a fault: a poll that has a vote takes another one
votePollAgain(prev, postId, optionId) ==
    [k \in DOMAIN prev |->
        IF prev[k].id # postId \/ prev[k].poll = NoPoll
        THEN prev[k]
        ELSE [id |-> prev[k].id,
              poll |-> [votedOptionId |-> optionId,
                        options |-> [j \in DOMAIN prev[k].poll.options |->
                            IF prev[k].poll.options[j].id = optionId
                            THEN PollOption(prev[k].poll.options[j].id,
                                            prev[k].poll.options[j].votes + 1)
                            ELSE prev[k].poll.options[j]]]]]

\* the updater votePoll passes to setPosts
votePoll(prev, postId, optionId) ==
    [k \in DOMAIN prev |->
        IF prev[k].id # postId \/ prev[k].poll = NoPoll
        THEN prev[k]
        ELSE IF prev[k].poll.votedOptionId # ""
        THEN prev[k]
        ELSE [id |-> prev[k].id,
              poll |-> [votedOptionId |-> optionId,
                        options |-> [j \in DOMAIN prev[k].poll.options |->
                            IF prev[k].poll.options[j].id = optionId
                            THEN PollOption(prev[k].poll.options[j].id,
                                            prev[k].poll.options[j].votes + 1)
                            ELSE prev[k].poll.options[j]]]]]

\* a click on option j of the PollBlock of post k:
\* onVote(o.id), that is votePoll(post.id, o.id)
Vote(k, j) ==
    /\ posts[k].poll # NoPoll
    /\ j \in DOMAIN posts[k].poll.options
    /\ posts' = votePoll(posts, posts[k].id, posts[k].poll.options[j].id)
    /\ feedCall' = FeedCall("votePoll", k, posts[k].id, posts[k].poll.options[j].id)
    /\ toasts' = <<>>
    /\ UNCHANGED <<loadingMore, subscribed, inflight, feedNow, bookingVars>>

\* the feed next to a booking management that nobody touches
FeedInit ==
    /\ Init
    /\ zone = "UTC"
    /\ now = 0
    /\ bookings = InitialBookings([k \in 1 .. 8 |-> 0])

FeedNext ==
    \/ \E n \in 1 .. MaxEntries : Intersect(n)
    \/ Resubscribe
    \/ TimerFires
    \/ \E pollOptions \in PollOptionLists : handleCreate(pollOptions)
    \/ \E k \in DOMAIN posts : \E j \in DOMAIN posts[k].poll.options : Vote(k, j)

FeedSpec == FeedInit /\ [][FeedNext]_vars

----------------------------------------------------------------------------
(* Vocabulary of the properties *)

\* the status an action requires, by the transition table
RequiredFrom(action) ==
    CASE action \in {"accept", "reject"} -> "pending"
      [] action = "confirm" -> "accepted"
      [] action = "pay" -> "awaiting_payment"
      [] action \in {"modify", "cancel"} -> "confirmed"
      [] action \in {"complete", "dispute"} -> "in_progress"
      [] action = "review" -> "completed"

\* the edges of the transition table
TableEdges ==
    {<<"pending", "accepted">>, <<"pending", "rejected">>,
     <<"accepted", "awaiting_payment">>, <<"awaiting_payment", "confirmed">>,
     <<"confirmed", "pending">>, <<"confirmed", "cancelled">>,
     <<"in_progress", "completed">>, <<"in_progress", "disputed">>}

TerminalStatuses == {"rejected", "completed", "cancelled", "disputed"}

\* the place, after the step, of the booking that was at place i before it
\* (submitRequest puts the new booking in front)
After(i) == bookings'[i + Len(bookings') - Len(bookings)]

\* the step ran handleAction with this action
Handled(action) == call'.op = "handleAction" /\ call'.action = action

\* the step applied this action: handleAction did, or the dialog it opened did
Applied(action) ==
    /\ call'.op \in {"handleAction", "onModifyConfirm", "onCancelConfirm",
                     "onDisputeSubmit", "onReviewSubmit"}
    /\ call'.action = action

\* the bookings an id names
Named(id) == {i \in DOMAIN bookings : bookings[i].id = id}

ValidationToast == Toast("error", "Please choose a new date range", "")

\* a booking made by submitRequest, which names its host "Host"
Requested(b) == b.hostName = "Host"

\* the status that a notification of handleAction or of a dialog announces
Announced ==
    [m \in {"Booking accepted", "Booking rejected", "Awaiting payment",
            "Payment received. Booking confirmed.", "Booking marked as completed",
            "Booking cancelled", "Dispute submitted"} |->
        CASE m = "Booking accepted" -> "accepted"
          [] m = "Booking rejected" -> "rejected"
          [] m = "Awaiting payment" -> "awaiting_payment"
          [] m = "Payment received. Booking confirmed." -> "confirmed"
          [] m = "Booking marked as completed" -> "completed"
          [] m = "Booking cancelled" -> "cancelled"
          [] m = "Dispute submitted" -> "disputed"]

\* the elements of a sequence
Elements(seq) == {seq[k] : k \in DOMAIN seq}

\* no two bookings of the collection have the same id
UniqueIds ==
    \A i, j \in DOMAIN bookings : bookings[i].id = bookings[j].id => i = j

----------------------------------------------------------------------------
(* Properties *)

\* C1: accept turns a pending booking into an accepted one, and leaves a
\* booking in any other status exactly as it was
C1_AcceptOnlyFromPending ==
    [][Handled("accept") =>
          \A i \in Named(call'.id) :
              IF bookings[i].status = "pending"
              THEN After(i).status = "accepted"
              ELSE After(i) = bookings[i]]_vars

\* C2: pay turns an awaiting_payment booking into a confirmed one, and a
\* pending booking stays pending
C2_PayOnlyFromAwaitingPayment ==
    [][Handled("pay") =>
          \A i \in Named(call'.id) :
              /\ bookings[i].status = "awaiting_payment" => After(i).status = "confirmed"
              /\ bookings[i].status = "pending" => After(i).status = "pending"]_vars

\* C3: whatever the action, a booking whose status is not the one the action
\* requires is left exactly as it was, each time the action is tried
C3_InvalidActionIsNoOp ==
    [][\A action \in Actions :
          Applied(action) =>
              \A i \in Named(call'.id) :
                  bookings[i].status # RequiredFrom(action) => After(i) = bookings[i]]_vars

\* C4: in every step every booking keeps its status or moves along one edge
\* of the transition table
C4_OnlyTableEdges ==
    [][\A i \in DOMAIN bookings :
          \/ After(i).status = bookings[i].status
          \/ <<bookings[i].status, After(i).status>> \in TableEdges]_vars

\* C5: modify sent with a whole date range, for a confirmed booking, makes
\* the booking pending with the new start and end dates
C5_ModifyToPendingWithNewDates ==
    [][(call'.op = "onModifyConfirm" /\ HasBoth(call'.range)) =>
          /\ \E i \in Named(call'.id) : bookings[i].status = "confirmed"
          /\ \A i \in Named(call'.id) :
                /\ After(i).status = "pending"
                /\ After(i).startDate = call'.range.from
                /\ After(i).endDate = call'.range.to]_vars

C5_Witness ==
    /\ call.op = "onModifyConfirm"
    /\ HasBoth(call.range)
    /\ \E i \in DOMAIN bookings :
          /\ bookings[i].id = call.id
          /\ bookings[i].status = "pending"
          /\ bookings[i].startDate = PickFrom
          /\ bookings[i].endDate = PickTo

\* C6: modify sent with a range that lacks its start or its end shows the
\* validation error and changes no booking
C6_ModifyWithoutRangeChangesNothing ==
    [][(call'.op = "onModifyConfirm" /\ ~HasBoth(call'.range)) =>
          /\ bookings' = bookings
          /\ toasts' = <<ValidationToast>>]_vars

C6_Witness ==
    /\ call.op = "onModifyConfirm"
    /\ call.range = [from |-> PickFrom, to |-> Undefined]
    /\ toasts = <<ValidationToast>>

\* C7: cancel confirmed in the dialog, for a confirmed booking, makes the
\* booking cancelled whatever the reason, and changes nothing else of the
\* record but lastUpdatedAt
C7_CancelWhateverTheReason ==
    [][call'.op = "onCancelConfirm" =>
          /\ \E i \in Named(call'.id) : bookings[i].status = "confirmed"
          /\ \A i \in Named(call'.id) :
                After(i) = [bookings[i] EXCEPT !.status = "cancelled",
                                               !.lastUpdatedAt = After(i).lastUpdatedAt]]_vars

C7_Witness ==
    /\ call.op = "onCancelConfirm"
    /\ call.text = ""
    /\ \E i \in DOMAIN bookings :
          bookings[i].id = call.id /\ bookings[i].status = "cancelled"

\* what C8 says of a submitted request, but for the two timestamps
SubmitOutcome ==
    IF call'.text = "" \/ ~HasBoth(call'.range)
    THEN bookings' = bookings
    ELSE /\ Len(bookings') = Len(bookings) + 1
         /\ \A i \in DOMAIN bookings : After(i) = bookings[i]
         /\ bookings'[1].status = "pending"
         /\ bookings'[1].cancellationPolicy = call'.policy
         /\ bookings'[1].startDate = call'.range.from
         /\ bookings'[1].endDate = call'.range.to

\* C8 as stated: a submitted request adds a pending booking with the submitted
\* policy and range whose createdAt equals its lastUpdatedAt; an incomplete
\* submission adds nothing
C8_CreatedAtEqualsLastUpdatedAt ==
    [][call'.op = "submit" =>
          /\ SubmitOutcome
          /\ Len(bookings') > Len(bookings) =>
                bookings'[1].createdAt = bookings'[1].lastUpdatedAt]_vars

\* C8 amended: a submitted request adds a pending booking with the submitted
\* policy and range whose createdAt is not later than its lastUpdatedAt; an
\* incomplete submission adds nothing
C8_RequestCreatesPending ==
    [][call'.op = "submit" =>
          /\ SubmitOutcome
          /\ Len(bookings') > Len(bookings) =>
                bookings'[1].createdAt <= bookings'[1].lastUpdatedAt]_vars

C8_Witness ==
    /\ call.op = "submit"
    /\ call.text = "Loft"
    /\ HasBoth(call.range)
    /\ bookings[1].status = "pending"
    /\ bookings[1].listingTitle = "Loft"
    /\ bookings[1].createdAt < bookings[1].lastUpdatedAt

\* C9: a booking that is rejected, completed, cancelled or disputed keeps
\* that status in every later step
C9_TerminalStatusesStay ==
    [][\A i \in DOMAIN bookings :
          bookings[i].status \in TerminalStatuses =>
              After(i).status = bookings[i].status]_vars

\* While the ids of the collection are unique, an action changes no booking
\* whose status is not the one it requires, statuses move only along the
\* table's edges, and the terminal statuses stay: it is a repeated id that
\* breaks C1, C2, C3, C4 and C9
GuardedWhileIdsUnique ==
    [][UniqueIds =>
          /\ \A action \in Actions :
                Applied(action) =>
                    \A i \in Named(call'.id) :
                        bookings[i].status # RequiredFrom(action) => After(i) = bookings[i]
          /\ \A i \in DOMAIN bookings :
                /\ \/ After(i).status = bookings[i].status
                   \/ <<bookings[i].status, After(i).status>> \in TableEdges
                /\ bookings[i].status \in TerminalStatuses =>
                      After(i).status = bookings[i].status]_vars

\* C10: every booking of the collection has one of the nine statuses
C10_StatusInEnumeration ==
    \A i \in DOMAIN bookings : bookings[i].status \in BookingStatus

C10_Witness ==
    /\ updates > 0
    /\ Len(bookings) > InitialCount
    /\ \E i \in DOMAIN bookings : bookings[i].status = "cancelled"
    /\ \E i \in DOMAIN bookings : bookings[i].status = "accepted"

\* C11: every booking's lastUpdatedAt is at or after its createdAt in every
\* state; no step changes a createdAt or moves a lastUpdatedAt back; and a
\* step that changes a booking's status or dates sets its lastUpdatedAt to a
\* reading of the clock taken in that step
C11_LastUpdatedAtFollowsMutations ==
    /\ [](\A i \in DOMAIN bookings :
            bookings[i].lastUpdatedAt >= bookings[i].createdAt)
    /\ [][\A i \in DOMAIN bookings :
            /\ After(i).createdAt = bookings[i].createdAt
            /\ After(i).lastUpdatedAt >= bookings[i].lastUpdatedAt
            /\ (\/ After(i).status # bookings[i].status
                \/ After(i).startDate # bookings[i].startDate
                \/ After(i).endDate # bookings[i].endDate) =>
                    /\ now <= After(i).lastUpdatedAt
                    /\ After(i).lastUpdatedAt <= now']_vars

C11_Witness ==
    /\ call.op = "handleAction"
    /\ call.action = "accept"
    /\ \E i \in DOMAIN bookings :
          /\ bookings[i].id = call.id
          /\ bookings[i].status = "accepted"
          /\ bookings[i].createdAt < bookings[i].lastUpdatedAt
          /\ bookings[i].lastUpdatedAt = now

\* C12: the booked ranges are, in the order of the bookings, the start and
\* end date of each booking that is accepted, awaiting_payment, confirmed,
\* in_progress or completed, and nothing else; of the bookings that are
\* pending, confirmed or cancelled, only the confirmed ones give a range
C12_BookedRangesOfBookedStatuses ==
    LET RangeOf(b) == [from |-> b.startDate, to |-> b.endDate]
        ranges == bookedRanges(bookings)
        Booked ==
            {i \in DOMAIN bookings :
                bookings[i].status \in {"accepted", "awaiting_payment", "confirmed",
                                        "in_progress", "completed"}}
        Place(i) == Cardinality({j \in Booked : j <= i})
        InScenario(b) == b.status \in {"pending", "confirmed", "cancelled"}
        those == SelectSeq(bookings, InScenario)
        Confirmed == {i \in DOMAIN those : those[i].status = "confirmed"}
        theirs == bookedRanges(those)
    IN  /\ Len(ranges) = Cardinality(Booked)
        /\ \A i \in Booked : ranges[Place(i)] = RangeOf(bookings[i])
        /\ Len(theirs) = Cardinality(Confirmed)
        /\ \A i \in Confirmed :
              theirs[Cardinality({j \in Confirmed : j <= i})] = RangeOf(those[i])

C12_Witness ==
    /\ \E i \in DOMAIN bookings : bookings[i].status = "pending"
    /\ \E i \in DOMAIN bookings : bookings[i].status = "confirmed"
    /\ \E i \in DOMAIN bookings : bookings[i].status = "cancelled"
    /\ \E i \in DOMAIN bookings : bookings[i].status = "accepted"
    /\ Len(bookedRanges(bookings)) = 3

\* C13: every booking's cancellation policy is flexible, moderate or strict,
\* and no step changes the policy of a booking
C13_PolicyNeverChanges ==
    /\ [](\A i \in DOMAIN bookings :
            bookings[i].cancellationPolicy \in CancellationPolicy)
    /\ [][\A i \in DOMAIN bookings :
            After(i).cancellationPolicy = bookings[i].cancellationPolicy]_vars

C13_Witness ==
    /\ call.op = "onCancelConfirm"
    /\ \E i \in DOMAIN bookings :
          /\ bookings[i].id = call.id
          /\ bookings[i].status = "cancelled"
          /\ bookings[i].cancellationPolicy = "flexible"

\* C14: no step removes a booking: the collection never gets shorter and
\* every id it held is still in it
C14_NoBookingRemoved ==
    [][/\ Len(bookings') >= Len(bookings)
       /\ \A i \in DOMAIN bookings :
             \E j \in DOMAIN bookings' : bookings'[j].id = bookings[i].id]_vars

C14_Witness ==
    /\ call.op = "onModifyConfirm"
    /\ Len(bookings) = InitialCount + 1
    /\ \A id \in {"bkg_1001", "bkg_1002", "bkg_1003", "bkg_0990"} :
          \E i \in DOMAIN bookings : bookings[i].id = id
    /\ \E i \in DOMAIN bookings : bookings[i].listingTitle = "Loft"

\* C15: no two bookings of the collection have the same id
C15_IdsAreUnique ==
    \A i, j \in DOMAIN bookings : i # j => bookings[i].id # bookings[j].id

\* C16: canPay is true of a booking exactly when its status is
\* awaiting_payment
C16_CanPayIffAwaitingPayment ==
    \A i \in DOMAIN bookings :
        bookings[i].canPay <=> bookings[i].status = "awaiting_payment"

\* C17: canModify and canCancel are true of a booking exactly when its
\* status is confirmed
C17_CanModifyCancelIffConfirmed ==
    \A i \in DOMAIN bookings :
        /\ bookings[i].canModify <=> bookings[i].status = "confirmed"
        /\ bookings[i].canCancel <=> bookings[i].status = "confirmed"

\* C18: a review of a completed booking, from the click on Review to the
\* dialog being submitted or dismissed, leaves the booking completed and
\* changes the status of no booking
C18_ReviewKeepsStatus ==
    [][(\/ Applied("review")
        \/ call'.op = "onOpenChange" /\ reviewFor # <<>>) =>
          /\ \A i \in DOMAIN bookings : After(i).status = bookings[i].status
          /\ \A i \in Named(IF reviewFor # <<>> THEN reviewFor[1].id ELSE call'.id) :
                /\ bookings[i].status = "completed"
                /\ After(i).status = "completed"]_vars

C18_Witness ==
    /\ call.op = "onReviewSubmit"
    /\ reviewFor = <<>>
    /\ toasts = <<Toast("success", "Thanks for your feedback!", "")>>
    /\ \E i \in DOMAIN bookings :
          bookings[i].id = call.id /\ bookings[i].status = "completed"

C20_NightsAreTheDayDifference ==
    /\ \A i \in DOMAIN bookings :
          daysBetween(bookings[i].startDate, bookings[i].endDate)
              = bookings[i].endDate - bookings[i].startDate
    /\ \A i \in DOMAIN bookings :
          daysBetween(bookings[i].startDate, bookings[i].startDate) = 0

\* C21: on a booking created by a request, accept, confirm, pay and
\* cancel("change of plans") take the status from pending to accepted, to
\* awaiting_payment, to confirmed and to cancelled; and once it is cancelled
\* a pay on it is refused: handleAction(id, "pay") changes no booking
C21_RequestLifecycleThenRefusedPay ==
    /\ [][\A i \in Named(call'.id) :
            Requested(bookings[i]) =>
                /\ (Handled("accept") /\ bookings[i].status = "pending")
                       => After(i).status = "accepted"
                /\ (Handled("confirm") /\ bookings[i].status = "accepted")
                       => After(i).status = "awaiting_payment"
                /\ (Handled("pay") /\ bookings[i].status = "awaiting_payment")
                       => After(i).status = "confirmed"
                /\ (/\ call'.op = "onCancelConfirm"
                    /\ call'.text = "change of plans"
                    /\ bookings[i].status = "confirmed")
                       => After(i).status = "cancelled"]_vars
    /\ [](\A i \in DOMAIN bookings :
            (Requested(bookings[i]) /\ bookings[i].status = "cancelled") =>
                ~ENABLED (/\ handleAction(bookings[i].id, "pay")
                          /\ bookings' # bookings))

\* C22: no booking is ever in_progress or disputed, complete and dispute are
\* never run, and no booking becomes completed
C22_InProgressUnreachable ==
    /\ [](/\ \A i \in DOMAIN bookings :
                bookings[i].status \notin {"in_progress", "disputed"}
          /\ call.action \notin {"complete", "dispute"})
    /\ [][\A i \in DOMAIN bookings :
            After(i).status = "completed" => bookings[i].status = "completed"]_vars

C22_Witness ==
    /\ call.op = "handleAction"
    /\ call.action = "pay"
    /\ updates = MaxUpdates
    /\ \E i \in DOMAIN bookings :
          /\ Requested(bookings[i])
          /\ bookings[i].status = "confirmed"
    /\ \E i \in DOMAIN bookings : bookings[i].status = "cancelled"

\* C23: accept, reject, confirm, pay and complete in handleAction, and cancel,
\* dispute and review in their dialogs, each show exactly one notification;
\* and a notification that announces a status is shown only in a step that
\* runs updateBooking and leaves the bookings it names in that status
C23_OneNotificationPerAction ==
    [][/\ (\/ /\ call'.op = "handleAction"
               /\ call'.action \in {"accept", "reject", "confirm", "pay", "complete"}
            \/ call'.op \in {"onCancelConfirm", "onDisputeSubmit", "onReviewSubmit"})
              => Len(toasts') = 1
       /\ \A k \in DOMAIN toasts' :
             toasts'[k].message \in DOMAIN Announced =>
                /\ updates' = updates + 1
                /\ Named(call'.id) # {}
                /\ \A i \in Named(call'.id) :
                      After(i).status = Announced[toasts'[k].message]]_vars

C23_Witness ==
    /\ call.op = "onCancelConfirm"
    /\ call.text = "change of plans"
    /\ toasts = <<Toast("plain", "Booking cancelled", "change of plans")>>
    /\ \A i \in DOMAIN bookings :
          bookings[i].id = call.id => bookings[i].status = "cancelled"

\* C24: a complete request whose range overlaps a booked range is taken like
\* any other: the booking is added with that range
C24_OverlappingRequestAccepted ==
    [][(/\ call'.op = "submit"
        /\ call'.text # ""
        /\ HasBoth(call'.range)
        /\ \E k \in DOMAIN bookedRanges(bookings) :
              Overlap(bookedRanges(bookings)[k], call'.range)) =>
          /\ Len(bookings') = Len(bookings) + 1
          /\ bookings'[1].startDate = call'.range.from
          /\ bookings'[1].endDate = call'.range.to
          /\ toasts' = <<Toast("success", "Request submitted", "")>>]_vars

\* two confirmed bookings with overlapping dates
C24_Witness ==
    \E i, j \in DOMAIN bookings :
        /\ i # j
        /\ bookings[i].id # bookings[j].id
        /\ bookings[i].status = "confirmed"
        /\ bookings[j].status = "confirmed"
        /\ Overlap([from |-> bookings[i].startDate, to |-> bookings[i].endDate],
                   [from |-> bookings[j].startDate, to |-> bookings[j].endDate])

\* C25: an action changes at most one booking, keeps the order of the
\* collection, and changes nothing when its id names no booking
C25_ActionChangesOneBooking ==
    [][\A action \in Actions :
          Applied(action) =>
              /\ Len(bookings') = Len(bookings)
              /\ \A i \in DOMAIN bookings : bookings'[i].id = bookings[i].id
              /\ Cardinality({i \in DOMAIN bookings : bookings'[i] # bookings[i]}) <= 1
              /\ Named(call'.id) = {} => bookings' = bookings]_vars

\* C26: when Modify is clicked on a card, the range the ModifyDialog proposes
\* is the start and end date of that card's booking
C26_ModifyDialogProposesOwnDates ==
    [][Handled("modify") =>
          modifyRange' = [from |-> bookings[call'.idx].startDate,
                          to |-> bookings[call'.idx].endDate]]_vars

\* C27: the total of a booking created by a request is 100 times the nights
\* of its dates
C27_TotalIsHundredPerNight ==
    \A i \in DOMAIN bookings :
        Requested(bookings[i]) =>
            bookings[i].total
                = 100 * daysBetween(bookings[i].startDate, bookings[i].endDate)

\* C28: every booking is in exactly one of the Active and History views,
\* Active for pending, accepted, awaiting_payment, confirmed and in_progress,
\* History for completed, cancelled, rejected and disputed; and every booking
\* of the Upcoming view is in the Active view
C28_ViewsPartition ==
    /\ Len(active(bookings)) + Len(history(bookings)) = Len(bookings)
    /\ \A i \in DOMAIN bookings :
          /\ bookings[i] \in Elements(active(bookings))
                <=> bookings[i].status \in {"pending", "accepted", "awaiting_payment",
                                            "confirmed", "in_progress"}
          /\ bookings[i] \in Elements(history(bookings))
                <=> bookings[i].status \in {"completed", "cancelled", "rejected",
                                            "disputed"}
          /\ bookings[i] \in Elements(active(bookings))
                <=> bookings[i] \notin Elements(history(bookings))
    /\ \A today \in Todays :
          Elements(upcoming(bookings, today)) \subseteq Elements(active(bookings))

C28_Witness ==
    /\ \E i \in DOMAIN bookings : bookings[i].status = "cancelled"
    /\ \E i \in DOMAIN bookings : bookings[i].status = "rejected"
    /\ Len(bookings) > InitialCount
    /\ Len(upcoming(bookings, Day(0, 6))) = 1
    /\ Len(upcoming(bookings, Day(0, 1))) = 0 + 1

\* C29: at most one loadMore waits for its timer at any time, loadingMore is
\* false when none is waiting, and a load that completes appends exactly
\* three posts
C29_LoadMoreSingleFlight ==
    /\ [](inflight <= 1)
    /\ [](inflight = 0 => ~loadingMore)
    /\ [][feedCall'.op = "loadMoreDone" => Len(posts') = Len(posts) + 3]_vars

\* C30: a votePoll on a poll without a vote records the option and adds 1 to
\* the votes of that option only; a votePoll on a poll that has a vote
\* changes nothing; the other posts are never changed
C30_OneVotePerPoll ==
    [][feedCall'.op = "votePoll" =>
          /\ Len(posts') = Len(posts)
          /\ \A k \in DOMAIN posts :
                IF k = feedCall'.idx /\ posts[k].poll.votedOptionId = ""
                THEN /\ posts'[k].id = posts[k].id
                     /\ posts'[k].poll.votedOptionId = feedCall'.optionId
                     /\ feedCall'.optionId # ""
                     /\ Cardinality({j \in DOMAIN posts[k].poll.options :
                            posts[k].poll.options[j].id = feedCall'.optionId}) = 1
                     /\ DOMAIN posts'[k].poll.options = DOMAIN posts[k].poll.options
                     /\ \A j \in DOMAIN posts[k].poll.options :
                           /\ posts'[k].poll.options[j].id = posts[k].poll.options[j].id
                           /\ posts'[k].poll.options[j].votes
                                = posts[k].poll.options[j].votes
                                    + (IF posts[k].poll.options[j].id = feedCall'.optionId
                                       THEN 1 ELSE 0)
                ELSE posts'[k] = posts[k]]_vars

\* a second vote, for another option, was cast on a poll that had a vote,
\* next to a poll without a vote
C30_Witness ==
    /\ feedCall.op = "votePoll"
    /\ posts[feedCall.idx].poll.votedOptionId = "o2"
    /\ feedCall.optionId = "o3"
    /\ posts[feedCall.idx].poll.options
          = <<PollOption("o1", 21), PollOption("o2", 10), PollOption("o3", 4)>>
    /\ \E k \in DOMAIN posts :
          /\ k # feedCall.idx
          /\ posts[k].poll # NoPoll
          /\ posts[k].poll.votedOptionId = ""

====
